---- MODULE Spec2Model ----
(***************************************************************************)
(* Model of dashboard1.py (GlioTarget Aptamer Explorer): the SQLite data   *)
(* gateway (get_sqlite_connection, fetch_data, load_data_from_csv,         *)
(* load_data_from_dataframe, create_database_tables) and the render pass   *)
(* main() that Streamlit runs once per user interaction.                   *)
(*                                                                         *)
(* Spec      : render passes of main() over a healthy store.               *)
(* SpecFault : the same, plus storage faults in connect / schema creation. *)
(* SpecOps   : the gateway functions applied in any order on a single      *)
(*             connection.                                                 *)
(***************************************************************************)
EXTENDS Integers, Sequences, FiniteSets, TLC

VARIABLES
    pc,        \* position of main(): idle, connected, schema, uploaded, paged, done, crashed, stopped, ops
    pass,      \* number of render passes started
    conn,      \* the pass's connection object: "none", "open", "closed"
    store,     \* the database behind conn: table name -> table
    session,   \* st.session_state: [has_pdb, pdb_content]
    msgs,      \* st.success / st.error / st.warning / st.info texts shown in this pass
    exc,       \* exception that escaped main() in this pass, or "none"
    out,       \* widget inputs read and query results obtained by the page code in this pass
    hist,      \* per-pass record: load executed, schema error, loads of the previous pass
    gw         \* SpecOps only: the last gateway calls and their results

vars == <<pc, pass, conn, store, session, msgs, exc, out, hist, gw>>

(***************************************************************************)
(* Bounds                                                                  *)
(***************************************************************************)
MaxPasses == 2
MaxTermLen == 2

(***************************************************************************)
(* SQL values.  A value is NULL, a number or a text (a sequence of         *)
(* one-character strings, so that LIKE can look inside it).                *)
(***************************************************************************)
Null == [k |-> "null", i |-> 0, s |-> <<>>]
Num(n) == [k |-> "int", i |-> n, s |-> <<>>]
Text(t) == [k |-> "text", i |-> 0, s |-> t]
\* Python-side values that are not SQL values: None (no option selected) and float NaN.
PyNone == [k |-> "none", i |-> 0, s |-> <<>>]
PyNaN == [k |-> "nan", i |-> 0, s |-> <<>>]

Digit(n) == CASE n = 0 -> "0" [] n = 1 -> "1" [] n = 2 -> "2" [] n = 3 -> "3"
              [] n = 4 -> "4" [] n = 5 -> "5" [] n = 6 -> "6" [] n = 7 -> "7"
              [] n = 8 -> "8" [] OTHER -> "9"

\* SQLite renders a number as text before LIKE looks at it (numbers here are 0..9).
ToText(v) == IF v.k = "int" THEN <<Digit(v.i)>> ELSE v.s

(***************************************************************************)
(* Tables and data frames                                                  *)
(***************************************************************************)
SchemaTables == {"egfr", "aptamers", "interactions"}
TableNames == SchemaTables \cup {"my_data"}

EgfrCols == {"id", "gene_name", "uniprot_accession", "sequence", "domain_structure"}
AptamerCols == {"id", "aptamer_id", "sequence", "sequence_modified", "length", "target",
                "binding_affinity", "modifications", "stability_data", "delivery_methods",
                "toxicity_data", "citations", "notes"}
InteractionCols == {"id", "aptamer_id", "egfr_id", "interaction_type", "distance", "angle",
                    "interacting_atoms", "interacting_residues"}

SchemaCols(t) == CASE t = "egfr" -> EgfrCols
                   [] t = "aptamers" -> AptamerCols
                   [] OTHER -> InteractionCols

Absent == [exists |-> FALSE, cols |-> {}, rows |-> <<>>]
EmptyStore == [t \in TableNames |-> Absent]

\* pd.DataFrame(): what fetch_data returns on any failure.
EmptyFrame == [err |-> FALSE, cols |-> {}, rows |-> <<>>]
\* DataFrame.empty
IsEmpty(df) == df.rows = <<>> \/ df.cols = {}

Range(seq) == {seq[i] : i \in 1..Len(seq)}

(***************************************************************************)
(* The uploads the user may supply.  kind: "ok" parses and writes;         *)
(* "malformed" makes pd.read_csv raise; "unwritable" parses but makes      *)
(* DataFrame.to_sql raise (e.g. column names differing only in case).      *)
(***************************************************************************)
\* The default text of the TSV text area: one EGFR row.
DfEgfrOne ==
    [kind |-> "ok", cols |-> EgfrCols,
     rows |-> << [id |-> Num(1), gene_name |-> Text(<<"E", "G">>),
                  uniprot_accession |-> Text(<<"P">>), sequence |-> Text(<<"A", "G">>),
                  domain_structure |-> Text(<<"D">>)] >>]
DfEgfrZero ==
    [kind |-> "ok", cols |-> {"id", "gene_name"},
     rows |-> << [id |-> Num(0), gene_name |-> Text(<<"E">>)],
                 [id |-> Num(2), gene_name |-> Text(<<"e">>)],
                 [id |-> Null, gene_name |-> Text(<<"G">>)] >>]
DfNoId ==
    [kind |-> "ok", cols |-> {"gene_name"},
     rows |-> << [gene_name |-> Text(<<"E">>)] >>]
DfAptamers ==
    [kind |-> "ok", cols |-> {"id", "aptamer_id", "sequence", "target"},
     rows |-> << [id |-> Num(1), aptamer_id |-> Text(<<"A", "1">>),
                  sequence |-> Text(<<"A", "A", "G">>), target |-> Null],
                 [id |-> Num(2), aptamer_id |-> Text(<<"a", "2">>),
                  sequence |-> Text(<<"a", "g">>), target |-> Text(<<"E">>)],
                 [id |-> Num(3), aptamer_id |-> Text(<<"3">>),
                  sequence |-> Text(<<"G", "%">>), target |-> Text(<<"e", "_">>)] >>]
DfInteractions ==
    [kind |-> "ok", cols |-> {"id", "aptamer_id", "egfr_id", "interaction_type"},
     rows |-> << [id |-> Num(1), aptamer_id |-> Num(1), egfr_id |-> Num(1),
                  interaction_type |-> Text(<<"H">>)],
                 [id |-> Num(2), aptamer_id |-> Num(2), egfr_id |-> Num(1),
                  interaction_type |-> Text(<<"H">>)],
                 [id |-> Num(3), aptamer_id |-> Num(1), egfr_id |-> Num(2),
                  interaction_type |-> Text(<<"S">>)] >>]
\* A header line and no data row.
DfHeaderOnly == [kind |-> "ok", cols |-> {"id", "sequence"}, rows |-> <<>>]
FileMalformed == [kind |-> "malformed", cols |-> {}, rows |-> <<>>]
FileUnwritable == [kind |-> "unwritable", cols |-> {"id"}, rows |-> <<>>]

Files == {DfEgfrOne, DfEgfrZero, DfNoId, DfAptamers, DfInteractions, DfHeaderOnly,
          FileMalformed, FileUnwritable}

\* pd.read_csv: the parsed frame, or an exception for text that does not parse.
ReadCsvRaises(file) == file.kind = "malformed"
ReadCsv(file) == [kind |-> IF file.kind = "unwritable" THEN "unwritable" ELSE "ok",
                  cols |-> file.cols, rows |-> file.rows]

(***************************************************************************)
(* SQLite's LIKE: '%' matches any run of characters, '_' any one           *)
(* character, and ASCII letters match without regard to case.              *)
(***************************************************************************)
M_UpperIdentity(c) == c

Upper(c) == CASE c = "a" -> "A" [] c = "g" -> "G" [] c = "e" -> "E" [] OTHER -> c

RECURSIVE LikeRec(_, _)
LikeRec(p, t) ==
    IF p = <<>> THEN t = <<>>
    ELSE IF Head(p) = "%"
         THEN LikeRec(Tail(p), t) \/ (t # <<>> /\ LikeRec(p, Tail(t)))
         ELSE /\ t # <<>>
              /\ (Head(p) = "_" \/ Upper(Head(p)) = Upper(Head(t)))
              /\ LikeRec(Tail(p), Tail(t))

\* value LIKE pattern, as a WHERE clause sees it: NULL LIKE x is not true.
SqlLike(v, pattern) == v.k # "null" /\ LikeRec(pattern, ToText(v))

\* value = ?, as a WHERE clause sees it.  sqlite3 binds None and NaN as NULL,
\* and NULL equals nothing.
SqlEq(v, arg) == v.k # "null" /\ arg.k \notin {"null", "nan", "none"} /\ v = arg

(***************************************************************************)
(* fetch_data                                                              *)
(***************************************************************************)
QAll(t) == [kind |-> "all", table |-> t, field |-> "", arg |-> PyNone]
QEq(t, f, a) == [kind |-> "eq", table |-> t, field |-> f, arg |-> a]
QLike(t, f, term) == [kind |-> "like", table |-> t, field |-> f,
                      arg |-> Text(<<"%">> \o term \o <<"%">>)]

QueryFailed == [err |-> TRUE, cols |-> {}, rows |-> <<>>]

\* pd.read_sql_query on an open connection; err means it raised.
ReadSqlQuery(s, q) ==
    LET t == s[q.table]
        Match(r) == IF q.kind = "eq" THEN SqlEq(r[q.field], q.arg)
                    ELSE SqlLike(r[q.field], q.arg.s)
    IN  IF ~t.exists THEN QueryFailed
        ELSE IF q.kind = "all" THEN [err |-> FALSE, cols |-> t.cols, rows |-> t.rows]
        ELSE IF q.field \notin t.cols THEN QueryFailed
        ELSE [err |-> FALSE, cols |-> t.cols, rows |-> SelectSeq(t.rows, Match)]

\* The frame fetch_data returns; err records that st.error was shown.
FetchData(c, s, q) ==
    IF c = "none" THEN EmptyFrame
    ELSE IF c = "closed" THEN QueryFailed
    ELSE ReadSqlQuery(s, q)

FetchMsgs(df) == IF df.err THEN {"Error fetching data"} ELSE {}

(***************************************************************************)
(* Python values of the widgets                                            *)
(***************************************************************************)
\* A NULL read back by pandas is NaN in a numeric column and None otherwise.
NumericCol(df, col) == \E i \in 1..Len(df.rows) : df.rows[i][col].k = "int"
PyVal(df, col, v) == IF v.k # "null" THEN v
                     ELSE IF NumericCol(df, col) THEN PyNaN ELSE PyNone
\* df[col].tolist()
ToList(df, col) == [i \in 1..Len(df.rows) |-> PyVal(df, col, df.rows[i][col])]

\* st.selectbox(label, options): one of the options, None when there is none.
Selectbox(options) == IF options = <<>> THEN {PyNone} ELSE Range(options)

\* `if x:` on a selected value.
Truthy(v) == CASE v.k = "none" -> FALSE
               [] v.k = "int" -> v.i # 0
               [] v.k = "text" -> v.s # <<>>
               [] OTHER -> TRUE

TermChars == {"A", "a", "%", "_"}
Terms == UNION {[1..n -> TermChars] : n \in 0..MaxTermLen}
SearchFields == {"aptamer_id", "sequence", "target"}

(***************************************************************************)
(* load_data_from_csv, load_data_from_dataframe, create_database_tables    *)
(***************************************************************************)
M_ToSqlAppend(s, df, t) ==
    [s EXCEPT ![t] = [exists |-> TRUE, cols |-> df.cols,
                      rows |-> IF s[t].cols = df.cols THEN s[t].rows \o df.rows
                               ELSE df.rows]]

\* df.to_sql(table_name, conn, if_exists="replace", index=False)
ToSql(s, df, t) ==
    [s EXCEPT ![t] = [exists |-> TRUE, cols |-> df.cols, rows |-> df.rows]]

DropTable(s, t) == [s EXCEPT ![t] = Absent]

\* The outcomes of load_data_from_dataframe: the store afterwards and the value
\* returned.  A to_sql that raises has either not touched the table or has
\* already dropped it.
LoadDataFrameOutcomes(s, df, t) ==
    IF df.kind = "unwritable"
    THEN {[store |-> s, ok |-> FALSE], [store |-> DropTable(s, t), ok |-> FALSE]}
    ELSE {[store |-> ToSql(s, df, t), ok |-> TRUE]}

\* The outcomes of load_data_from_csv: read_csv, then to_sql, in one try block.
LoadCsvOutcomes(s, file, t) ==
    IF ReadCsvRaises(file) THEN {[store |-> s, ok |-> FALSE]}
    ELSE LoadDataFrameOutcomes(s, ReadCsv(file), t)

LoadMsgs(ok) == IF ok THEN {"Data loaded successfully"} ELSE {"Error loading data"}

M_CreateTable(s, t) ==
    [store |-> IF s[t].exists THEN s
               ELSE [s EXCEPT ![t] = [exists |-> TRUE, cols |-> SchemaCols(t), rows |-> <<>>]],
     raised |-> s[t].exists]

\* CREATE TABLE IF NOT EXISTS t (...): the store afterwards, and whether the
\* statement raised.
CreateTableIfNotExists(s, t) ==
    [store |-> IF s[t].exists THEN s
               ELSE [s EXCEPT ![t] = [exists |-> TRUE, cols |-> SchemaCols(t), rows |-> <<>>]],
     raised |-> FALSE]

\* create_database_tables: the three statements in order inside one try block;
\* err records that the except clause showed "Error creating database tables".
CreateDatabaseTables(s) ==
    LET r1 == CreateTableIfNotExists(s, "egfr")
        r2 == CreateTableIfNotExists(r1.store, "aptamers")
        r3 == CreateTableIfNotExists(r2.store, "interactions")
    IN  IF r1.raised THEN [store |-> r1.store, err |-> TRUE]
        ELSE IF r2.raised THEN [store |-> r2.store, err |-> TRUE]
        ELSE [store |-> r3.store, err |-> r3.raised]

CreateMsgs(err) == IF err THEN {"Error creating database tables"}
                   ELSE {"Database tables created (if they didn't exist)."}

\* A storage fault makes statement k raise: the statements before it have run.
StatementOrder == <<"egfr", "aptamers", "interactions">>
CreateTablesUpTo(s, k) ==
    [t \in TableNames |->
        IF (\E j \in 1..(k - 1) : StatementOrder[j] = t) /\ ~s[t].exists
        THEN [exists |-> TRUE, cols |-> SchemaCols(t), rows |-> <<>>]
        ELSE s[t]]

M_OpenDatabaseFile(old) == old

\* sqlite3.connect(":memory:"): a new, empty database, whatever an earlier
\* connection held.
OpenDatabase(old) == EmptyStore

(***************************************************************************)
(* State of a render pass                                                  *)
(***************************************************************************)
NoFile == [kind |-> "none", cols |-> {}, rows |-> <<>>]
PdbFiles == {[decodable |-> TRUE, text |-> "ATOM 1"], [decodable |-> TRUE, text |-> "ATOM 2"],
             [decodable |-> FALSE, text |-> ""]}
NoPdb == [decodable |-> TRUE, text |-> "none"]

Pages == {"EGFR Data", "Aptamer Data", "Interaction Data", "3D Viewer"}
FilterTypes == {"Aptamer ID", "EGFR ID", "All"}
StructureTypes == {"EGFR", "Aptamer-IV", "Aptamer-VI", "Aptamer-VII", "Uploaded PDB"}
PdbFilePath(st) == CASE st = "EGFR" -> "egfr.pdb"
                     [] st = "Aptamer-IV" -> "aptamer_iv.pdb"
                     [] st = "Aptamer-VI" -> "aptamer_vi.pdb"
                     [] OTHER -> "aptamer_vii.pdb"

NoOut == [page |-> "none",
          full |-> EmptyFrame,        \* the page's SELECT * result
          sel |-> PyNone,             \* the id chosen in the details selectbox
          looked |-> FALSE,           \* the WHERE id = ? lookup was made
          details |-> EmptyFrame,
          searched |-> FALSE,         \* the Search button was pressed
          term |-> <<>>, field |-> "",
          results |-> EmptyFrame,
          filter |-> "none",          \* the filter type chosen
          filtered |-> FALSE,         \* the filter produced its result
          interactions |-> EmptyFrame,
          viewed |-> "none"]          \* what st_3d_viewer was given

NoHist == [loadTried |-> FALSE, loadOk |-> FALSE, loadTable |-> "", loadRows |-> <<>>,
           schemaErr |-> FALSE, acquired |-> FALSE, prevLoaded |-> ""]

NoLoad == [has |-> FALSE, cols |-> {}, rows |-> <<>>, earlier |-> FALSE, earlierCols |-> {}]
NoGw == [ops |-> <<>>, err |-> FALSE, lastLoad |-> [t \in TableNames |-> NoLoad],
         table |-> "", result |-> EmptyFrame]

Init ==
    /\ pc = "idle"
    /\ pass = 0
    /\ conn = "none"
    /\ store = EmptyStore
    /\ session = [has_pdb |-> FALSE, pdb_content |-> ""]
    /\ msgs = {}
    /\ exc = "none"
    /\ out = NoOut
    /\ hist = NoHist
    /\ gw = NoGw

PassOver == pc \in {"idle", "done", "crashed", "stopped"}

\* The table a load of this pass filled with at least one row, for the next pass.
LoadedTable == IF hist.loadOk /\ hist.loadRows # <<>> THEN hist.loadTable ELSE ""

(***************************************************************************)
(* main(): connection and schema                                           *)
(***************************************************************************)
\* A user interaction starts a pass; get_sqlite_connection() returns a connection.
Connect ==
    /\ PassOver
    /\ pass < MaxPasses
    /\ pass' = pass + 1
    /\ conn' = "open"
    /\ store' = OpenDatabase(store)
    /\ msgs' = {}
    /\ exc' = "none"
    /\ out' = NoOut
    /\ hist' = [NoHist EXCEPT !.acquired = TRUE, !.prevLoaded = LoadedTable]
    /\ pc' = "connected"
    /\ UNCHANGED <<session, gw>>

\* sqlite3.connect raises: get_sqlite_connection returns None and main()
\* calls st.stop().
ConnectFail ==
    /\ PassOver
    /\ pass < MaxPasses
    /\ pass' = pass + 1
    /\ conn' = "none"
    /\ msgs' = {"Error connecting to the database"}
    /\ exc' = "none"
    /\ out' = NoOut
    /\ hist' = [NoHist EXCEPT !.prevLoaded = LoadedTable]
    /\ pc' = "stopped"
    /\ UNCHANGED <<store, session, gw>>

CreateTables ==
    /\ pc = "connected"
    /\ LET r == CreateDatabaseTables(store)
       IN  /\ store' = r.store
           /\ msgs' = msgs \cup CreateMsgs(r.err)
           /\ hist' = [hist EXCEPT !.schemaErr = r.err]
    /\ pc' = "schema"
    /\ UNCHANGED <<pass, conn, session, exc, out, gw>>

\* Statement k of create_database_tables raises: the except clause shows the
\* error and the function returns as it does on success.
CreateTablesFail ==
    /\ pc = "connected"
    /\ \E k \in 1..3 : store' = CreateTablesUpTo(store, k)
    /\ msgs' = msgs \cup CreateMsgs(TRUE)
    /\ hist' = [hist EXCEPT !.schemaErr = TRUE]
    /\ pc' = "schema"
    /\ UNCHANGED <<pass, conn, session, exc, out, gw>>

(***************************************************************************)
(* main(): the Data Upload section                                         *)
(***************************************************************************)
Loaded(t, o, df) ==
    [hist EXCEPT !.loadTried = TRUE, !.loadOk = o.ok, !.loadTable = t,
                 !.loadRows = IF o.ok THEN df.rows ELSE <<>>]

UploadCSV ==
    /\ pc = "schema"
    /\ \E csv_file \in Files \cup {NoFile}, table_name \in TableNames :
         IF csv_file = NoFile
         THEN UNCHANGED <<store, msgs, hist>>
         ELSE \E o \in LoadCsvOutcomes(store, csv_file, table_name) :
                /\ store' = o.store
                /\ msgs' = msgs \cup LoadMsgs(o.ok)
                             \cup (IF o.ok THEN {} ELSE {"Failed to load CSV data."})
                /\ hist' = Loaded(table_name, o, csv_file)
    /\ pc' = "uploaded"
    /\ UNCHANGED <<pass, conn, session, exc, out, gw>>

EnterTSV ==
    /\ pc = "schema"
    /\ \E tsv_data \in Files, table_name \in TableNames, button \in BOOLEAN :
         IF ~button
         THEN UNCHANGED <<store, msgs, hist>>
         ELSE IF ReadCsvRaises(tsv_data)
         THEN /\ msgs' = msgs \cup {"Error reading TSV data"}
              /\ UNCHANGED <<store, hist>>
         ELSE \E o \in LoadDataFrameOutcomes(store, ReadCsv(tsv_data), table_name) :
                /\ store' = o.store
                /\ msgs' = msgs \cup LoadMsgs(o.ok)
                             \cup (IF o.ok THEN {} ELSE {"Failed to load DataFrame data"})
                /\ hist' = Loaded(table_name, o, tsv_data)
    /\ pc' = "uploaded"
    /\ UNCHANGED <<pass, conn, session, exc, out, gw>>

\* pdb_file.read().decode("utf-8") is outside any try block.
UploadPDB ==
    /\ pc = "schema"
    /\ \E pdb_file \in PdbFiles \cup {NoPdb} :
         IF pdb_file = NoPdb
         THEN /\ pc' = "uploaded"
              /\ UNCHANGED <<session, msgs, exc>>
         ELSE IF ~pdb_file.decodable
         THEN /\ exc' = "UnicodeDecodeError"
              /\ pc' = "crashed"
              /\ UNCHANGED <<session, msgs>>
         ELSE /\ session' = [has_pdb |-> TRUE, pdb_content |-> pdb_file.text]
              /\ msgs' = msgs \cup {"PDB file uploaded successfully."}
              /\ pc' = "uploaded"
              /\ UNCHANGED exc
    /\ UNCHANGED <<pass, conn, store, out, hist, gw>>

(***************************************************************************)
(* main(): the pages                                                       *)
(***************************************************************************)
\* data["id"] on a non-empty frame that has no id column raises KeyError.
IdKeyError(df) == ~IsEmpty(df) /\ "id" \notin df.cols
\* data["id"].tolist() if not data.empty else []
IdOptions(df) == IF IsEmpty(df) THEN <<>> ELSE ToList(df, "id")

\* What the details block of a page shows for the chosen id.
DetailMsgs(looked, details, notFound) ==
    IF ~looked THEN {}
    ELSE FetchMsgs(details) \cup (IF IsEmpty(details) THEN {notFound} ELSE {})

PageEGFR ==
    /\ pc = "uploaded"
    /\ LET egfr_data == FetchData(conn, store, QAll("egfr"))
           shown == FetchMsgs(egfr_data) \cup
                    (IF IsEmpty(egfr_data) THEN {"No EGFR data available."} ELSE {})
       IN  IF IdKeyError(egfr_data)
           THEN /\ out' = [NoOut EXCEPT !.page = "EGFR Data", !.full = egfr_data]
                /\ msgs' = msgs \cup shown
                /\ exc' = "KeyError"
                /\ pc' = "crashed"
           ELSE \E egfr_id \in Selectbox(IdOptions(egfr_data)) :
                  LET looked == Truthy(egfr_id)
                      egfr_details == IF looked
                                      THEN FetchData(conn, store, QEq("egfr", "id", egfr_id))
                                      ELSE EmptyFrame
                  IN  /\ out' = [NoOut EXCEPT !.page = "EGFR Data", !.full = egfr_data,
                                              !.sel = egfr_id, !.looked = looked,
                                              !.details = egfr_details]
                      /\ msgs' = msgs \cup shown
                                   \cup DetailMsgs(looked, egfr_details, "EGFR not found.")
                      /\ pc' = "paged"
                      /\ UNCHANGED exc
    /\ UNCHANGED <<pass, conn, store, session, hist, gw>>

PageAptamer ==
    /\ pc = "uploaded"
    /\ LET aptamer_data == FetchData(conn, store, QAll("aptamers"))
           shown == FetchMsgs(aptamer_data) \cup
                    (IF IsEmpty(aptamer_data) THEN {"No aptamer data available."} ELSE {})
       IN  IF IdKeyError(aptamer_data)
           THEN /\ out' = [NoOut EXCEPT !.page = "Aptamer Data", !.full = aptamer_data]
                /\ msgs' = msgs \cup shown
                /\ exc' = "KeyError"
                /\ pc' = "crashed"
           ELSE \E aptamer_id \in Selectbox(IdOptions(aptamer_data)),
                   search_query \in Terms, search_field \in SearchFields,
                   button \in BOOLEAN :
                  LET looked == Truthy(aptamer_id)
                      aptamer_details ==
                          IF looked
                          THEN FetchData(conn, store, QEq("aptamers", "id", aptamer_id))
                          ELSE EmptyFrame
                      search_results ==
                          IF button
                          THEN FetchData(conn, store,
                                         QLike("aptamers", search_field, search_query))
                          ELSE EmptyFrame
                  IN  /\ out' = [NoOut EXCEPT !.page = "Aptamer Data", !.full = aptamer_data,
                                              !.sel = aptamer_id, !.looked = looked,
                                              !.details = aptamer_details,
                                              !.searched = button,
                                              !.term = IF button THEN search_query ELSE <<>>,
                                              !.field = IF button THEN search_field ELSE "",
                                              !.results = search_results]
                      /\ msgs' = msgs \cup shown
                                   \cup DetailMsgs(looked, aptamer_details, "Aptamer not found")
                                   \cup (IF button
                                         THEN FetchMsgs(search_results) \cup
                                              (IF IsEmpty(search_results)
                                               THEN {"No matching aptamers found."} ELSE {})
                                         ELSE {})
                      /\ pc' = "paged"
                      /\ UNCHANGED exc
    /\ UNCHANGED <<pass, conn, store, session, hist, gw>>

\* The locals of main() that the page branch taken has assigned.  aptamer_data
\* and egfr_data are assigned only in the Aptamer Data and EGFR Data branches.
BoundLocals(page) == CASE page = "EGFR Data" -> {"egfr_data"}
                       [] page = "Aptamer Data" -> {"aptamer_data"}
                       [] page = "Interaction Data" -> {"interaction_data"}
                       [] OTHER -> {}

\* The local a filter type reads for its selectbox options.
FilterLocal(filter_type) == IF filter_type = "Aptamer ID" THEN "aptamer_data" ELSE "egfr_data"
FilterColumn(filter_type) == IF filter_type = "Aptamer ID" THEN "aptamer_id" ELSE "egfr_id"
PageInteraction ==
    /\ pc = "uploaded"
    /\ LET interaction_data == FetchData(conn, store, QAll("interactions"))
           shown == FetchMsgs(interaction_data) \cup
                    (IF IsEmpty(interaction_data) THEN {"No interaction data available."}
                     ELSE {})
           base == [NoOut EXCEPT !.page = "Interaction Data", !.full = interaction_data]
       IN  \E filter_type \in FilterTypes :
             IF filter_type = "All"
             THEN LET again == FetchData(conn, store, QAll("interactions"))
                  IN  /\ out' = [base EXCEPT !.filter = filter_type, !.filtered = TRUE,
                                             !.interactions = again]
                      /\ msgs' = msgs \cup shown \cup FetchMsgs(again)
                                   \cup (IF IsEmpty(again) THEN {"No interactions found ."}
                                         ELSE {})
                      /\ pc' = "paged"
                      /\ UNCHANGED exc
             ELSE \* aptamer_data / egfr_data is read for the selectbox options, and
                  \* this branch of main() has not assigned it: the read raises and
                  \* lines 283-291 / 294-302 are never reached.
                  /\ FilterLocal(filter_type) \notin BoundLocals("Interaction Data")
                  /\ out' = [base EXCEPT !.filter = filter_type]
                  /\ msgs' = msgs \cup shown
                  /\ exc' = "UnboundLocalError"
                  /\ pc' = "crashed"
    /\ UNCHANGED <<pass, conn, store, session, hist, gw>>

\* st_3d_viewer only writes its argument (the first 100 characters of it).
PageViewer ==
    /\ pc = "uploaded"
    /\ \E structure_type \in StructureTypes :
         IF structure_type # "Uploaded PDB"
         THEN /\ out' = [NoOut EXCEPT !.page = "3D Viewer",
                                      !.viewed = PdbFilePath(structure_type)]
              /\ msgs' = msgs \cup {"3D structure visualization is not fully implemented."}
         ELSE IF session.has_pdb
         THEN /\ out' = [NoOut EXCEPT !.page = "3D Viewer", !.viewed = session.pdb_content]
              /\ msgs' = msgs \cup {"3D structure visualization is not fully implemented."}
         ELSE /\ out' = [NoOut EXCEPT !.page = "3D Viewer"]
              /\ msgs' = msgs \cup {"Please upload a PDB file first."}
    /\ pc' = "paged"
    /\ UNCHANGED <<pass, conn, store, session, exc, hist, gw>>

\* The last statement of main().
Close ==
    /\ pc = "paged"
    /\ conn' = "closed"
    /\ pc' = "done"
    /\ UNCHANGED <<pass, store, session, msgs, exc, out, hist, gw>>

Next ==
    \/ Connect
    \/ CreateTables
    \/ UploadCSV
    \/ EnterTSV
    \/ UploadPDB
    \/ PageEGFR
    \/ PageAptamer
    \/ PageInteraction
    \/ PageViewer
    \/ Close

Spec == Init /\ [][Next]_vars

NextFault == Next \/ ConnectFail \/ CreateTablesFail

SpecFault == Init /\ [][NextFault]_vars

(***************************************************************************)
(* The gateway functions called in any order on one open connection.       *)
(* gw.ops holds the names of the last two calls, gw.err whether the last   *)
(* call showed an error, gw.lastLoad the frame of the latest load of each  *)
(* table while every load of that table has succeeded (earlier: a load of  *)
(* that table came before it, with columns earlierCols).                   *)
(***************************************************************************)
InitOps ==
    /\ pc = "ops"
    /\ pass = 0
    /\ conn = "open"
    /\ store = OpenDatabase(EmptyStore)
    /\ session = [has_pdb |-> FALSE, pdb_content |-> ""]
    /\ msgs = {}
    /\ exc = "none"
    /\ out = NoOut
    /\ hist = NoHist
    /\ gw = NoGw

\* The destination names and uploads the calls are tried with: a schema table
\* and a table of the user's own, frames of three shapes and the two failing texts.
OpsTables == {"egfr", "my_data"}
OpsFiles == {DfEgfrOne, DfEgfrZero, DfNoId, FileMalformed, FileUnwritable}

Called(op) == IF gw.ops = <<>> THEN <<op>> ELSE <<gw.ops[Len(gw.ops)], op>>

AfterLoad(t, o, df) ==
    [gw EXCEPT !.ops = Called("load"), !.err = ~o.ok, !.table = t, !.result = EmptyFrame,
               !.lastLoad[t] = IF o.ok
                               THEN [has |-> TRUE, cols |-> df.cols, rows |-> df.rows,
                                     earlier |-> gw.lastLoad[t].has,
                                     earlierCols |-> gw.lastLoad[t].cols]
                               ELSE NoLoad]

OpCreateTables ==
    /\ pc = "ops"
    /\ LET r == CreateDatabaseTables(store)
       IN  /\ store' = r.store
           /\ gw' = [gw EXCEPT !.ops = Called("create"), !.err = r.err, !.table = "",
                               !.result = EmptyFrame]
    /\ UNCHANGED <<pc, pass, conn, session, msgs, exc, out, hist>>

OpLoadCsv ==
    /\ pc = "ops"
    /\ \E file \in OpsFiles, t \in OpsTables :
         \E o \in LoadCsvOutcomes(store, file, t) :
            /\ store' = o.store
            /\ gw' = AfterLoad(t, o, file)
    /\ UNCHANGED <<pc, pass, conn, session, msgs, exc, out, hist>>

OpLoadDataFrame ==
    /\ pc = "ops"
    /\ \E file \in {f \in OpsFiles : ~ReadCsvRaises(f)}, t \in OpsTables :
         \E o \in LoadDataFrameOutcomes(store, ReadCsv(file), t) :
            /\ store' = o.store
            /\ gw' = AfterLoad(t, o, file)
    /\ UNCHANGED <<pc, pass, conn, session, msgs, exc, out, hist>>

OpFetchAll ==
    /\ pc = "ops"
    /\ \E t \in OpsTables :
         LET df == FetchData(conn, store, QAll(t))
         IN  gw' = [gw EXCEPT !.ops = Called("fetch"), !.err = df.err, !.table = t,
                              !.result = df]
    /\ UNCHANGED <<pc, pass, conn, store, session, msgs, exc, out, hist>>

NextOps == OpCreateTables \/ OpLoadCsv \/ OpLoadDataFrame \/ OpFetchAll

SpecOps == InitOps /\ [][NextOps]_vars

(***************************************************************************)
(* Properties                                                              *)
(***************************************************************************)
LastOp == IF gw.ops = <<>> THEN "" ELSE gw.ops[Len(gw.ops)]

\* C1: on one connection, once a table has been the destination of successful
\* bulk loads only, SELECT * of it through fetch_data raises nothing and returns
\* the columns and the rows of the most recent load, in order, and nothing of an
\* earlier load, whatever the earlier load's columns were; the same holds of the
\* frame an actual fetch_data call has just returned.
C1_LoadReplaces ==
    /\ \A t \in OpsTables :
         gw.lastLoad[t].has =>
            LET df == FetchData(conn, store, QAll(t))
            IN  /\ ~df.err
                /\ df.cols = gw.lastLoad[t].cols
                /\ df.rows = gw.lastLoad[t].rows
    /\ (LastOp = "fetch" /\ gw.lastLoad[gw.table].has) =>
          /\ ~gw.err
          /\ gw.result.cols = gw.lastLoad[gw.table].cols
          /\ gw.result.rows = gw.lastLoad[gw.table].rows

\* A full read of egfr right after the second of two loads of different columns,
\* returning the one row of the default TSV text.
C1_Witness ==
    /\ gw.ops = <<"load", "fetch">>
    /\ gw.table = "egfr"
    /\ gw.lastLoad["egfr"].has
    /\ gw.lastLoad["egfr"].earlier
    /\ gw.lastLoad["egfr"].earlierCols # gw.lastLoad["egfr"].cols
    /\ gw.result.rows = DfEgfrOne.rows
    /\ gw.result.cols = EgfrCols

\* C2: create_database_tables is idempotent: when it is called twice in
\* succession, neither call shows an error and the second call leaves every
\* table of the store, those filled by a bulk load included, as it was.
C2_CreateIdempotent ==
    [][(LastOp = "create" /\ gw'.ops = <<"create", "create">>)
         => (~gw.err /\ ~gw'.err /\ store' = store)]_vars

\* Two calls in succession on a store whose egfr table holds loaded rows.
C2_Witness ==
    /\ gw.ops = <<"create", "create">>
    /\ store["egfr"].rows # <<>>
    /\ store["aptamers"].exists
    /\ ~gw.err

\* C3: no exception escapes main(): every failure of a render pass is caught
\* where it occurs, whatever the page, the filter type, the upload and the
\* table contents.
C3_NoExceptionEscapes == exc = "none"

\* C4: a render pass that acquired a connection has closed it when the pass
\* ends, on every path through the pass.
C4_ConnectionReleased ==
    (pc \in {"done", "crashed", "stopped"} /\ hist.acquired) => conn = "closed"

\* The rows of the interactions table whose column col equals id.
InteractionsWhere(col, id) ==
    LET t == store["interactions"]
        Match(r) == col \in DOMAIN r /\ r[col] = id
    IN  SelectSeq(t.rows, Match)

\* C5: on the Interaction Data page each of the three filter choices completes
\* and produces its result: "All" the whole interactions table, "EGFR ID" /
\* "Aptamer ID" with a chosen identifier exactly the rows whose egfr_id /
\* aptamer_id equals it.
C5_FilterInteractions ==
    (out.page = "Interaction Data" /\ pc \in {"paged", "done", "crashed"}) =>
        /\ exc = "none"
        /\ out.filter = "All" =>
              (out.filtered /\ out.interactions.rows = store["interactions"].rows)
        /\ (out.filter \in {"EGFR ID", "Aptamer ID"} /\ out.sel.k = "int") =>
              /\ out.filtered
              /\ out.interactions.rows = InteractionsWhere(FilterColumn(out.filter), out.sel)

\* text contains term as a literal substring, letter case respected.
Contains(text, term) ==
    \E i \in 0..(Len(text) - Len(term)) : SubSeq(text, i + 1, i + Len(term)) = term

\* Two characters that are equal or the two cases of one ASCII letter.
SameLetter(a, b) == a = b \/ {a, b} \in {{"a", "A"}, {"g", "G"}, {"e", "E"}}
\* text contains term as a literal substring, ASCII letter case ignored.
ContainsNoCase(text, term) ==
    \E i \in 0..(Len(text) - Len(term)) :
        \A j \in 1..Len(term) : SameLetter(text[i + j], term[j])

HasWildcard(term) == \E j \in 1..Len(term) : term[j] \in {"%", "_"}

\* The value of row r in the searched field is there and is not NULL.
HasValue(r, f) == f \in DOMAIN r /\ r[f].k # "null"

\* The rows of the aptamers table a literal, case-sensitive search would return.
SearchExact(f, term) ==
    LET Match(r) == HasValue(r, f) /\ Contains(ToText(r[f]), term)
    IN  SelectSeq(store["aptamers"].rows, Match)
\* The rows of the aptamers table a literal, case-insensitive search would return.
SearchNoCase(f, term) ==
    LET Match(r) == HasValue(r, f) /\ ContainsNoCase(ToText(r[f]), term)
    IN  SelectSeq(store["aptamers"].rows, Match)

\* C6 as stated: a search with a non-empty term returns exactly the aptamers
\* rows whose searched field contains the term as a case-sensitive literal
\* substring.
C6_SearchCaseSensitive ==
    (out.searched /\ out.term # <<>>) =>
        out.results.rows = SearchExact(out.field, out.term)

\* C6 as amended: a search with a non-empty term returns rows of the aptamers
\* table, in table order, among them every row whose searched field is not NULL
\* and contains the term as a literal substring with ASCII letter case ignored,
\* and never a row whose searched field is NULL or missing; when the term holds
\* neither '%' nor '_' it returns exactly those rows.
C6_SearchLike ==
    (out.searched /\ out.term # <<>>) =>
        LET got == out.results.rows
            InGot(r) == r \in Range(got)
        IN  /\ got = SelectSeq(store["aptamers"].rows, InGot)
            /\ Range(SearchNoCase(out.field, out.term)) \subseteq Range(got)
            /\ \A r \in Range(got) : HasValue(r, out.field)
            /\ ~HasWildcard(out.term) => got = SearchNoCase(out.field, out.term)

\* A search for "a" in sequence that returned a row whose sequence holds no "a",
\* only "A".
C6_Witness ==
    /\ out.searched
    /\ out.term = <<"a">>
    /\ out.field = "sequence"
    /\ \E r \in Range(out.results.rows) : ~Contains(ToText(r["sequence"]), <<"a">>)
    /\ \E r \in Range(store["aptamers"].rows) : r \notin Range(out.results.rows)

\* C7: a search with an empty term returns all rows of the aptamers table,
\* whatever the search field, rows whose searched field is NULL included
\* (stated for the tables that have the searched column).
C7_EmptyTermReturnsAll ==
    (out.searched /\ out.term = <<>> /\ out.field \in store["aptamers"].cols) =>
        out.results.rows = store["aptamers"].rows

\* The table a details page reads and the message of its failed lookup.
PageTable(page) == IF page = "EGFR Data" THEN "egfr" ELSE "aptamers"
NotFoundMsg(page) == IF page = "EGFR Data" THEN "EGFR not found." ELSE "Aptamer not found"
RowsWithId(t, id) ==
    LET Match(r) == "id" \in DOMAIN r /\ r["id"].k # "null" /\ r["id"] = id
    IN  SelectSeq(store[t].rows, Match)

\* C8: a WHERE id = ? lookup for an identifier that is not in the table returns
\* an empty result and shows the page's not-found message; for every
\* identifier that is in the table and selected, 0 included, the lookup is made
\* and returns the rows of that identifier.
C8_Lookup ==
    (out.page \in {"EGFR Data", "Aptamer Data"} /\ pc \in {"paged", "done"}) =>
        LET present == RowsWithId(PageTable(out.page), out.sel)
        IN  /\ (out.looked /\ present = <<>>) =>
                  (IsEmpty(out.details) /\ NotFoundMsg(out.page) \in msgs)
            /\ present # <<>> => (out.looked /\ out.details.rows = present)

\* A load, a page read or a page was executed in this pass.
DependentRan == hist.loadTried \/ out.page # "none" \/ pc \in {"paged", "done"}

\* C9: when create_database_tables fails, the bulk loads and page reads of that
\* pass are not executed; when the connection cannot be acquired, main() stops
\* before any schema, load or read operation.
C9_SchemaFailureHalts ==
    /\ hist.schemaErr => ~DependentRan
    /\ (pass > 0 /\ ~hist.acquired) =>
          (pc = "stopped" /\ conn = "none" /\ ~DependentRan /\ ~hist.schemaErr)

\* The frames the page code of this pass obtained from fetch_data.
Reads == {out.full, out.details, out.results, out.interactions}
ReadTable == CASE out.page = "EGFR Data" -> "egfr"
               [] out.page = "Aptamer Data" -> "aptamers"
               [] out.page = "Interaction Data" -> "interactions"
               [] OTHER -> ""
\* The rows a successful load of this pass wrote into table t.
LoadedInto(t) == IF hist.loadOk /\ hist.loadTable = t THEN hist.loadRows ELSE <<>>

\* C10: no table content survives a render pass.  The store a pass connects to
\* is empty; right after create_database_tables exactly egfr, aptamers and
\* interactions exist, with the schema's columns and no row; the full read of a
\* page returns exactly the rows a bulk load of this same pass wrote into the
\* page's table, and every other read of the pass only rows among them; and a
\* new pass starts from an empty store with st.session_state as the pass before
\* left it.
C10_NoContentSurvives ==
    /\ [](/\ pc = "connected" => store = EmptyStore
          /\ pc = "schema" =>
                \A t \in TableNames :
                    IF t \in SchemaTables
                    THEN store[t] = [exists |-> TRUE, cols |-> SchemaCols(t), rows |-> <<>>]
                    ELSE ~store[t].exists
          /\ out.page \in {"EGFR Data", "Aptamer Data", "Interaction Data"} =>
                /\ out.full.rows = LoadedInto(ReadTable)
                /\ \A f \in Reads : Range(f.rows) \subseteq Range(LoadedInto(ReadTable)))
    /\ [][pc' = "connected" => (store' = EmptyStore /\ session' = session)]_vars

\* The pass after one that loaded rows into egfr: no load is executed, and the
\* EGFR page reads the table without error and gets no row.
C10_Witness ==
    /\ pass = 2
    /\ hist.prevLoaded = "egfr"
    /\ ~hist.loadTried
    /\ out.page = "EGFR Data"
    /\ out.full.rows = <<>>
    /\ ~out.full.err

====
